---- MODULE Spec2Model ----
(***************************************************************************)
(* Model of mqtt_telegram_bridge.py: the MQTT message callback, the        *)
(* Telegram delivery function with its plain-text retry, and the part of   *)
(* main() that runs the receive loop and the shutdown path.                *)
(*                                                                         *)
(* Text is a sequence of tokens (a sequence of strings): a literal of the  *)
(* source is one or a few tokens, a value taken from a payload is the      *)
(* token sequence of that value, and an f-string is the concatenation.     *)
(***************************************************************************)
EXTENDS Integers, Sequences, FiniteSets, TLC

VARIABLES
    pc,                  \* where the main thread is
    TELEGRAM_BOT_TOKEN,  \* os.getenv('TELEGRAM_BOT_TOKEN')
    TELEGRAM_CHAT_ID,    \* os.getenv('TELEGRAM_CHAT_ID')
    MONITOR_ALIVE,       \* module configuration flag
    NOTIFY_ONLINE,       \* module configuration flag
    msg,                 \* the message on_message was last called with
    branch,              \* the branch of on_message the last message took
    log,                 \* what on_message printed for the last message
    calls,               \* calls of send_telegram_message by the last message
    posts,               \* HTTP posts of the last send_telegram_message call
    ret,                 \* what the last send_telegram_message call returned
    escaped,             \* the exception that left on_message, if any
    sdcalls,             \* calls of send_telegram_message by the shutdown path
    sdposts,             \* HTTP posts of the shutdown notification
    sdret,               \* what the shutdown path's call returned
    nmsgs,               \* on_message invocations so far
    sigs,                \* KeyboardInterrupts delivered so far
    client,              \* whether main() has created the mqtt.Client
    connects,            \* calls of client.connect by main()
    event,               \* the last connection callback and its code
    subs,                \* subscribe calls made by the last on_connect
    cbcalls,             \* calls of send_telegram_message by connection callbacks
    nevents,             \* connection callbacks so far
    inbound,             \* history: the messages received, in order
    started,             \* history: the delivery calls started, in order
    delivered,           \* history: the messages whose notification was delivered
    rendered,            \* the heartbeat text rendered for the last message
    request              \* the arguments of a direct call of send_telegram_message

vars == <<pc, TELEGRAM_BOT_TOKEN, TELEGRAM_CHAT_ID, MONITOR_ALIVE, NOTIFY_ONLINE,
          msg, branch, log, calls, posts, ret, escaped, sdcalls, sdposts, sdret, nmsgs, sigs,
          client, connects, event, subs, cbcalls, nevents, inbound, started, delivered,
          rendered, request>>

config == <<TELEGRAM_BOT_TOKEN, TELEGRAM_CHAT_ID, MONITOR_ALIVE, NOTIFY_ONLINE>>

startup == <<client, connects>>
lifecycle == <<event, subs, cbcalls, nevents>>
history == <<inbound, started, delivered>>

(***************************************************************************)
(* Bounds of the model.                                                    *)
(***************************************************************************)
MaxMsgs == 2
MaxSignals == 2
MaxEvents == 3

(***************************************************************************)
(* Configuration values.                                                   *)
(***************************************************************************)
None == "None"
MQTT_TOPIC_STATUS == "devices/IoT_device_365/status"
MQTT_TOPIC_ALIVE == "devices/IoT_device_365/alive"
OtherTopic == "devices/IoT_device_365/other"
Topics == {MQTT_TOPIC_STATUS, MQTT_TOPIC_ALIVE, OtherTopic}

TokenPlaceholder == "YOUR_BOT_TOKEN_HERE"
ChatPlaceholder == "YOUR_CHAT_ID_HERE"
EnvTokens == {None, TokenPlaceholder, "123456:token"}
EnvChatIds == {None, ChatPlaceholder, "4242"}

(***************************************************************************)
(* The status literals on_message compares with, as token sequences, and   *)
(* the defaults of dict.get.                                               *)
(***************************************************************************)
S_offline == <<"off", "line">>
S_online == <<"on", "line">>
S_confirmed == <<"Motion", " ", "detect", "ion", " ", "confirmed">>
S_nomotion == <<"No", " ", "motion">>
S_detected == <<"Motion", " ", "detect", "ed">>
D_Unknown == <<"Unknown">>
D_unknown == <<"unknown">>

KnownStatuses == {S_offline, S_online, S_confirmed, S_nomotion, S_detected}

(***************************************************************************)
(* Inbound payloads.  The bytes of a message are either not valid UTF-8,   *)
(* or the encoding of a text; a text is not JSON, or JSON that is not an   *)
(* object, or a JSON object: a function from the keys that are present to  *)
(* their values.                                                           *)
(***************************************************************************)
Keys == {"device_id", "status", "reason", "timestamp"}

StatusValues ==
    KnownStatuses \cup
    { <<"Off", "line">>,                \* differs in case
      <<"off">>,                        \* substring
      <<"off", "line", "d">>,           \* superstring
      <<"Motion", " ", "detect">> }     \* common prefix of two literals

ValuesOf(k) ==
    CASE k = "device_id" -> { <<"sensor", "1">> }
      [] k = "status"    -> StatusValues
      [] k = "reason"    -> { <<"power", " ", "loss">> }
      [] k = "timestamp" -> { <<"2024-01-01", " ", "00:00:00">> }

AllValues == UNION { ValuesOf(k) : k \in Keys }

Objects ==
    UNION { { f \in [P -> AllValues] : \A k \in P : f[k] \in ValuesOf(k) }
            : P \in SUBSET Keys }

NoObject == [k \in {} |-> <<>>]

Texts ==
    { [json |-> "invalid", obj |-> NoObject], [json |-> "array", obj |-> NoObject] }
    \cup { [json |-> "object", obj |-> o] : o \in Objects }

Payloads ==
    { [utf8 |-> FALSE, text |-> [json |-> "invalid", obj |-> NoObject]] }
    \cup { [utf8 |-> TRUE, text |-> t] : t \in Texts }

Nows == { <<"2026-01-01", " ", "12:00:00">> }

(***************************************************************************)
(* msg.payload.decode('utf-8'), json.loads and dict.get.                   *)
(***************************************************************************)
decode(bytes) ==
    IF bytes.utf8 THEN [raised |-> "none", text |-> bytes.text]
    ELSE [raised |-> "UnicodeDecodeError", text |-> bytes.text]

json_loads(text) ==
    IF text.json = "invalid" THEN [raised |-> "JSONDecodeError", isdict |-> FALSE, data |-> NoObject]
    ELSE [raised |-> "none", isdict |-> text.json = "object", data |-> text.obj]

get(data, key, default) ==
    IF key \in DOMAIN data THEN data[key] ELSE default

(***************************************************************************)
(* The message formatters.  The emoji that open the titles are written as  *)
(* words.                                                                  *)
(***************************************************************************)
\* format_offline_message cutting the reason short.
format_offline_message_cut(device_id, reason, timestamp) ==
    <<"(red) <b>Device Offline Alert</b>\n\n", "<b>Device:</b> <code>">>
    \o device_id
    \o <<"</code>\n", "<b>Status:</b> Offline\n", "<b>Reason:</b> ">>
    \o SubSeq(reason, 1, 1)
    \o <<"\n", "<b>Time:</b> ">>
    \o timestamp
    \o <<"\n\n", "(warning) The device has lost connection unexpectedly.">>

format_offline_message(device_id, reason, timestamp) ==
    <<"(red) <b>Device Offline Alert</b>\n\n", "<b>Device:</b> <code>">>
    \o device_id
    \o <<"</code>\n", "<b>Status:</b> Offline\n", "<b>Reason:</b> ">>
    \o reason
    \o <<"\n", "<b>Time:</b> ">>
    \o timestamp
    \o <<"\n\n", "(warning) The device has lost connection unexpectedly.">>

format_online_message(device_id, timestamp) ==
    <<"(green) <b>Device Online</b>\n\n", "<b>Device:</b> <code>">>
    \o device_id
    \o <<"</code>\n", "<b>Status:</b> Online\n", "<b>Time:</b> ">>
    \o timestamp
    \o <<"\n\n", "(check) The device has reconnected successfully.">>

motion_confirmed_message(device_id, device_timestamp) ==
    <<"(siren) <b>Motion Detection Alert</b>\n\n", "<b>Device:</b> <code>">>
    \o device_id
    \o <<"</code>\n", "<b>Status:</b> Motion confirmed\n", "<b>Time:</b> ">>
    \o device_timestamp
    \o <<"\n\n", "(warning) Unauthorized motion detected in monitored area!">>

motion_detected_message(device_id, device_timestamp) ==
    <<"(yellow) <b>Motion Detected</b>\n\n", "<b>Device:</b> <code>">>
    \o device_id
    \o <<"</code>\n", "<b>Status:</b> Motion detected (awaiting confirmation)\n", "<b>Time:</b> ">>
    \o device_timestamp
    \o <<"\n\n", "Monitoring for continued movement...">>

shutdown_message(now) ==
    <<"(stop) <b>MQTT LWT Monitor Stopped</b>\n\n", "Time: ">> \o now

(***************************************************************************)
(* The if/elif chain of on_message over the status field.                  *)
(***************************************************************************)
StatusBranch(status, notify_online) ==
    IF status = S_offline THEN "DeviceOffline"
    ELSE IF status = S_online /\ notify_online THEN "DeviceOnline"
    ELSE IF status = S_confirmed THEN "MotionConfirmed"
    ELSE IF status = S_nomotion THEN "MotionCleared"
    ELSE IF status = S_detected THEN "MotionDetectedInitial"
    ELSE "UnknownStatus"

(***************************************************************************)
(* The branches that call send_telegram_message.                           *)
(***************************************************************************)
\* The branches that send when the "No motion" notification is switched on.
SendingBranches_nomotion ==
    {"DeviceOffline", "DeviceOnline", "MotionConfirmed", "MotionDetectedInitial",
     "MotionCleared"}

SendingBranches ==
    {"DeviceOffline", "DeviceOnline", "MotionConfirmed", "MotionDetectedInitial"}

(***************************************************************************)
(* The text a branch passes to send_telegram_message.                      *)
(***************************************************************************)
\* BranchMessage with the processing time in every message.
BranchMessage_now(b, data, device_id, timestamp) ==
    CASE b = "DeviceOffline" ->
            format_offline_message(device_id, get(data, "reason", D_unknown), timestamp)
      [] b = "DeviceOnline" ->
            format_online_message(device_id, timestamp)
      [] b = "MotionConfirmed" ->
            motion_confirmed_message(device_id, timestamp)
      [] b = "MotionDetectedInitial" ->
            motion_detected_message(device_id, timestamp)
      [] OTHER -> <<>>

BranchMessage(b, data, device_id, timestamp) ==
    CASE b = "DeviceOffline" ->
            format_offline_message(device_id, get(data, "reason", D_unknown), timestamp)
      [] b = "DeviceOnline" ->
            format_online_message(device_id, timestamp)
      [] b = "MotionConfirmed" ->
            motion_confirmed_message(device_id, get(data, "timestamp", timestamp))
      [] b = "MotionDetectedInitial" ->
            motion_detected_message(device_id, get(data, "timestamp", timestamp))
      [] OTHER -> <<>>

(***************************************************************************)
(* What a branch prints before it sends or instead of sending.             *)
(***************************************************************************)
BranchLog(b, data, device_id, status, payload) ==
    CASE b = "DeviceOffline" ->
            <<[line |-> "offline detected", device_id |-> device_id,
               reason |-> get(data, "reason", D_unknown)]>>
      [] b = "DeviceOnline" ->
            <<[line |-> "online detected", device_id |-> device_id]>>
      [] b = "MotionConfirmed" ->
            <<[line |-> "motion confirmed", device_id |-> device_id]>>
      [] b = "MotionCleared" ->
            <<[line |-> "no motion", device_id |-> device_id]>>
      [] b = "MotionDetectedInitial" ->
            <<[line |-> "initial motion", device_id |-> device_id]>>
      [] b = "UnknownStatus" ->
            <<[line |-> "unknown status", status |-> status, device_id |-> device_id],
              [line |-> "full payload", payload |-> payload]>>

(***************************************************************************)
(* on_message up to its call of send_telegram_message, or to its end when  *)
(* it sends nothing: the exception that leaves it, the branch taken, what  *)
(* it printed, and the text to send.                                       *)
(***************************************************************************)
\* An on_message that sends nothing more once a delivery has failed.
Outcome_breaker(esc, b, lg, text) ==
    [escaped |-> esc, branch |-> b, log |-> lg,
     send |-> b \in SendingBranches /\ ret # "False", message |-> text]

Outcome(esc, b, lg, text) ==
    [escaped |-> esc, branch |-> b, log |-> lg,
     send |-> b \in SendingBranches, message |-> text]

\* An on_message that handles heartbeats whatever MONITOR_ALIVE says.
on_message_alive_always(topic, bytes, now, monitor_alive, notify_online) ==
    LET dec == decode(bytes)
        payload == dec.text
        timestamp == now
        received == <<[line |-> "received", topic |-> topic, payload |-> payload]>>
        parsed == json_loads(payload)
        data == parsed.data
        attributeError == <<[line |-> "error processing message", error |-> "AttributeError"]>>
    IN  IF dec.raised # "none"
          THEN Outcome(dec.raised, "none", <<>>, <<>>)
        ELSE IF parsed.raised # "none"
          THEN Outcome("none", "MalformedPayload",
                       received \o <<[line |-> "failed to parse JSON", payload |-> payload]>>, <<>>)
        ELSE IF topic = MQTT_TOPIC_STATUS
          THEN IF ~parsed.isdict
                 THEN Outcome("none", "ProcessingError", received \o attributeError, <<>>)
                 ELSE LET device_id == get(data, "device_id", D_Unknown)
                          status == get(data, "status", D_Unknown)
                          b == StatusBranch(status, notify_online)
                      IN  Outcome("none", b,
                                  received \o BranchLog(b, data, device_id, status, payload),
                                  BranchMessage(b, data, device_id, timestamp))
        ELSE IF topic = MQTT_TOPIC_ALIVE
          THEN IF ~parsed.isdict
                 THEN Outcome("none", "ProcessingError", received \o attributeError, <<>>)
                 ELSE Outcome("none", "Heartbeat",
                              received \o <<[line |-> "heartbeat",
                                             device_id |-> get(data, "device_id", D_Unknown)]>>,
                              <<>>)
        ELSE Outcome("none", "NoOp", received, <<>>)

on_message(topic, bytes, now, monitor_alive, notify_online) ==
    LET dec == decode(bytes)
        payload == dec.text
        timestamp == now
        received == <<[line |-> "received", topic |-> topic, payload |-> payload]>>
        parsed == json_loads(payload)
        data == parsed.data
        attributeError == <<[line |-> "error processing message", error |-> "AttributeError"]>>
    IN  IF dec.raised # "none"
          THEN Outcome(dec.raised, "none", <<>>, <<>>)
        ELSE IF parsed.raised # "none"
          THEN Outcome("none", "MalformedPayload",
                       received \o <<[line |-> "failed to parse JSON", payload |-> payload]>>, <<>>)
        ELSE IF topic = MQTT_TOPIC_STATUS
          THEN IF ~parsed.isdict
                 THEN Outcome("none", "ProcessingError", received \o attributeError, <<>>)
                 ELSE LET device_id == get(data, "device_id", D_Unknown)
                          status == get(data, "status", D_Unknown)
                          b == StatusBranch(status, notify_online)
                      IN  Outcome("none", b,
                                  received \o BranchLog(b, data, device_id, status, payload),
                                  BranchMessage(b, data, device_id, timestamp))
        ELSE IF topic = MQTT_TOPIC_ALIVE /\ monitor_alive
          THEN IF ~parsed.isdict
                 THEN Outcome("none", "ProcessingError", received \o attributeError, <<>>)
                 ELSE Outcome("none", "Heartbeat",
                              received \o <<[line |-> "heartbeat",
                                             device_id |-> get(data, "device_id", D_Unknown)]>>,
                              <<>>)
        ELSE Outcome("none", "NoOp", received, <<>>)

(***************************************************************************)
(* send_telegram_message.  A post is the JSON body and its result.         *)
(***************************************************************************)
BuildPayload(chat_id, message, parse_mode) ==
    IF parse_mode \notin {None, ""}
      THEN [chat_id |-> chat_id, text |-> message, parse_mode |-> parse_mode]
      ELSE [chat_id |-> chat_id, text |-> message]

\* pop leaving the key in place.
pop_keeps(payload, key) ==
    payload

pop(payload, key) ==
    [k \in DOMAIN payload \ {key} |-> payload[k]]

\* The retry made whatever parse_mode was.
Formatted_always(payload) == TRUE

Formatted(payload) == "parse_mode" \in DOMAIN payload

FirstPost(chat_id, message, parse_mode) ==
    <<[payload |-> BuildPayload(chat_id, message, parse_mode), result |-> "pending"]>>

\* send_telegram_message returning True when the retry has failed.
send_telegram_message_true(ps, r) ==
    LET n == Len(ps)
        ended == [ps EXCEPT ![n].result = r]
    IN  IF r = "ok"
          THEN [posts |-> ended, ret |-> "True"]
        ELSE IF n = 1 /\ "parse_mode" \in DOMAIN ps[1].payload
          THEN [posts |-> Append(ended, [payload |-> [k \in DOMAIN ps[1].payload \ {"parse_mode"}
                                                        |-> ps[1].payload[k]],
                                         result |-> "pending"]),
                ret |-> "none"]
        ELSE [posts |-> ended, ret |-> "True"]

\* The post in flight has ended with result r ("ok" or "fail", a
\* RequestException): the posts made so far and the value returned, "none"
\* while the function goes on to its retry.
send_telegram_message(ps, r) ==
    LET n == Len(ps)
        ended == [ps EXCEPT ![n].result = r]
    IN  IF r = "ok"
          THEN [posts |-> ended, ret |-> "True"]
        ELSE IF n = 1 /\ Formatted(ps[1].payload)
          THEN [posts |-> Append(ended, [payload |-> pop(ps[1].payload, "parse_mode"),
                                         result |-> "pending"]),
                ret |-> "none"]
        ELSE [posts |-> ended, ret |-> "False"]

\* A KeyboardInterrupt is raised inside the post in flight.  The handler of
\* the first try names RequestException only; the handler of the retry is a
\* bare except.
interrupt_send(ps) ==
    LET n == Len(ps)
        ended == [ps EXCEPT ![n].result = "interrupted"]
    IN  IF n = 1
          THEN [posts |-> ended, ret |-> "none", raised |-> "KeyboardInterrupt"]
          ELSE [posts |-> ended, ret |-> "False", raised |-> "none"]

\* What on_message prints when send_telegram_message has returned.
ResultLog(r) ==
    IF r = "True" THEN <<[line |-> "notification sent"]>>
    ELSE <<[line |-> "failed to send notification"]>>

(***************************************************************************)
(* The state when main() is entered: the environment and the flags are     *)
(* whatever the deployment set them to.                                    *)
(***************************************************************************)
NoMessage == [topic |-> None, payload |-> None, now |-> <<>>]

Init ==
    /\ pc = "start"
    /\ TELEGRAM_BOT_TOKEN \in EnvTokens
    /\ TELEGRAM_CHAT_ID \in EnvChatIds
    /\ MONITOR_ALIVE \in BOOLEAN
    /\ NOTIFY_ONLINE \in BOOLEAN
    /\ msg = NoMessage
    /\ branch = "none"
    /\ log = <<>>
    /\ calls = 0
    /\ posts = <<>>
    /\ ret = "none"
    /\ escaped = "none"
    /\ sdcalls = 0
    /\ sdposts = <<>>
    /\ sdret = "none"
    /\ nmsgs = 0
    /\ sigs = 0
    /\ client = FALSE
    /\ connects = 0
    /\ event = [callback |-> "none", rc |-> 0, printed |-> "none"]
    /\ subs = <<>>
    /\ cbcalls = 0
    /\ nevents = 0
    /\ inbound = <<>>
    /\ started = <<>>
    /\ delivered = <<>>
    /\ rendered = <<>>
    /\ request = <<>>

(***************************************************************************)
(* main() from its entry to client.loop_forever(): the two placeholder     *)
(* tests, the client, and connect, which succeeds or raises.               *)
(***************************************************************************)
ConfigAccepted(token, chat_id) ==
    /\ token # TokenPlaceholder
    /\ chat_id # ChatPlaceholder

Main ==
    /\ pc = "start"
    /\ IF ConfigAccepted(TELEGRAM_BOT_TOKEN, TELEGRAM_CHAT_ID)
         THEN /\ client' = TRUE
              /\ connects' = connects + 1
              /\ \E connected \in BOOLEAN :
                    pc' = IF connected THEN "loop" ELSE "returned"
         ELSE /\ pc' = "returned"
              /\ UNCHANGED startup
    /\ UNCHANGED <<config, msg, branch, log, calls, posts, ret, escaped,
                   sdcalls, sdposts, sdret, nmsgs, sigs, lifecycle, history, rendered, request>>

(***************************************************************************)
(* The receive loop calls on_message with one inbound message.  The        *)
(* callback runs to its end, or to the first HTTP post when it sends.  An  *)
(* exception that leaves the callback leaves loop_forever and main().      *)
(***************************************************************************)
\* loop_forever handing a message to on_message while a delivery is in flight.
loop_forever_idle_async == pc \in {"loop", "msg_post1", "msg_post2"}

loop_forever_idle == pc = "loop"

on_message_runs(topic, bytes, now) ==
    /\ loop_forever_idle
    /\ nmsgs < MaxMsgs
    /\ LET o == on_message(topic, bytes, now, MONITOR_ALIVE, NOTIFY_ONLINE)
       IN  /\ msg' = [topic |-> topic, payload |-> bytes, now |-> now]
           /\ branch' = o.branch
           /\ log' = o.log
           /\ escaped' = o.escaped
           /\ ret' = "none"
           /\ IF o.escaped # "none"
                THEN /\ pc' = "crashed"
                     /\ calls' = 0
                     /\ posts' = <<>>
              ELSE IF o.send
                THEN /\ pc' = "msg_post1"
                     /\ calls' = 1
                     /\ posts' = FirstPost(TELEGRAM_CHAT_ID, o.message, "HTML")
              ELSE /\ pc' = "loop"
                   /\ calls' = 0
                   /\ posts' = <<>>
    /\ nmsgs' = nmsgs + 1
    /\ UNCHANGED <<config, sdcalls, sdposts, sdret, sigs, startup, lifecycle>>

Receive(topic, bytes, now) ==
    /\ on_message_runs(topic, bytes, now)
    /\ UNCHANGED <<history, rendered, request>>

(***************************************************************************)
(* The HTTP post that on_message is waiting for ends: with a 2xx answer,   *)
(* or with a RequestException (timeout, non-2xx answer, network error).    *)
(***************************************************************************)
post_ends(r) ==
    /\ pc \in {"msg_post1", "msg_post2"}
    /\ LET s == send_telegram_message(posts, r)
       IN  /\ posts' = s.posts
           /\ ret' = s.ret
           /\ IF s.ret = "none"
                THEN /\ pc' = "msg_post2"
                     /\ log' = log \o <<[line |-> "retrying without formatting"]>>
                ELSE /\ pc' = "loop"
                     /\ log' = log \o ResultLog(s.ret)
    /\ UNCHANGED <<config, msg, branch, calls, escaped, sdcalls, sdposts, sdret,
                   nmsgs, sigs, startup, lifecycle, rendered, request>>

MessagePostEnds(r) ==
    /\ post_ends(r)
    /\ UNCHANGED history

\* ShutdownPostEnds with a failed notification raised as an error in main().
ShutdownPostEnds_raises(r) ==
    /\ pc \in {"sd_post1", "sd_post2"}
    /\ LET s == send_telegram_message(sdposts, r)
       IN  /\ sdposts' = s.posts
           /\ sdret' = s.ret
           /\ pc' = CASE s.ret = "none" -> "sd_post2"
                      [] s.ret = "True" -> "done"
                      [] s.ret = "False" -> "crashed"
    /\ UNCHANGED <<config, msg, branch, log, calls, posts, ret, escaped,
                   sdcalls, nmsgs, sigs, startup, lifecycle, history, rendered, request>>

(***************************************************************************)
(* The HTTP post of the shutdown notification ends; when the call has      *)
(* returned, main() calls client.disconnect() and returns.                 *)
(***************************************************************************)
ShutdownPostEnds(r) ==
    /\ pc \in {"sd_post1", "sd_post2"}
    /\ LET s == send_telegram_message(sdposts, r)
       IN  /\ sdposts' = s.posts
           /\ sdret' = s.ret
           /\ pc' = IF s.ret = "none" THEN "sd_post2" ELSE "done"
    /\ UNCHANGED <<config, msg, branch, log, calls, posts, ret, escaped,
                   sdcalls, nmsgs, sigs, startup, lifecycle, history, rendered, request>>

(***************************************************************************)
(* Ctrl+C: KeyboardInterrupt is raised in the main thread, where it is.    *)
(*  - in loop_forever or in the first post of on_message it reaches the    *)
(*    handler in main(), which starts the shutdown notification;           *)
(*  - in the retry of on_message the bare except takes it, the call        *)
(*    returns False and the loop goes on;                                  *)
(*  - in the first post of the shutdown notification it leaves main();     *)
(*  - in the retry of the shutdown notification the bare except takes it   *)
(*    and main() goes on to disconnect.                                    *)
(***************************************************************************)
EnterShutdown(now) ==
    /\ pc' = "sd_post1"
    /\ sdcalls' = sdcalls + 1
    /\ sdposts' = FirstPost(TELEGRAM_CHAT_ID, shutdown_message(now), "HTML")
    /\ sdret' = "none"

KeyboardInterrupt(now) ==
    /\ sigs < MaxSignals
    /\ sigs' = sigs + 1
    /\ \/ /\ pc = "loop"
          /\ EnterShutdown(now)
          /\ UNCHANGED <<posts, ret, log, escaped>>
       \/ /\ pc \in {"msg_post1", "msg_post2"}
          /\ LET s == interrupt_send(posts)
             IN  /\ posts' = s.posts
                 /\ ret' = s.ret
                 /\ escaped' = s.raised
                 /\ IF s.raised # "none"
                      THEN /\ EnterShutdown(now)
                           /\ log' = log
                      ELSE /\ pc' = "loop"
                           /\ log' = log \o ResultLog(s.ret)
                           /\ UNCHANGED <<sdcalls, sdposts, sdret>>
       \/ /\ pc \in {"sd_post1", "sd_post2"}
          /\ LET s == interrupt_send(sdposts)
             IN  /\ sdposts' = s.posts
                 /\ sdret' = s.ret
                 /\ pc' = IF s.raised # "none" THEN "crashed" ELSE "done"
          /\ UNCHANGED <<posts, ret, log, escaped, sdcalls>>
    /\ UNCHANGED <<config, msg, branch, calls, nmsgs, startup, lifecycle, history, rendered, request>>

Next ==
    \/ Main
    \/ \E topic \in Topics, bytes \in Payloads, now \in Nows : Receive(topic, bytes, now)
    \/ \E r \in {"ok", "fail"} : MessagePostEnds(r)
    \/ \E r \in {"ok", "fail"} : ShutdownPostEnds(r)
    \/ \E now \in Nows : KeyboardInterrupt(now)

Spec == Init /\ [][Next]_vars

\* Every post is made with timeout=10, so a post in flight ends: the posts of
\* the shutdown notification are taken under weak fairness.
FairSpec == Spec /\ WF_vars(\E r \in {"ok", "fail"} : ShutdownPostEnds(r))

(***************************************************************************)
(* The connection callbacks.  on_connect subscribes when the code is 0;    *)
(* neither callback has a call of send_telegram_message: send is the       *)
(* sequence of texts a callback passes to it.                              *)
(***************************************************************************)
ReasonCodes == {0, 5}

\* on_connect with the startup notification sent.
on_connect_notifies(rc, monitor_alive) ==
    IF rc = 0
      THEN [subs |-> <<[topic |-> MQTT_TOPIC_STATUS, qos |-> 1]>>
                     \o (IF monitor_alive
                           THEN <<[topic |-> MQTT_TOPIC_ALIVE, qos |-> 1]>>
                           ELSE <<>>),
            printed |-> "connected, monitor ready",
            send |-> << <<"(check) <b>Monitor started</b>">> >>]
      ELSE [subs |-> <<>>, printed |-> "connection failed", send |-> <<>>]

\* on_connect subscribing to the alive topic whatever the flag.
on_connect_alive(rc, monitor_alive) ==
    IF rc = 0
      THEN [subs |-> <<[topic |-> MQTT_TOPIC_STATUS, qos |-> 1],
                       [topic |-> MQTT_TOPIC_ALIVE, qos |-> 1]>>,
            printed |-> "connected, monitor ready",
            send |-> <<>>]
      ELSE [subs |-> <<>>, printed |-> "connection failed", send |-> <<>>]

on_connect(rc, monitor_alive) ==
    IF rc = 0
      THEN [subs |-> <<[topic |-> MQTT_TOPIC_STATUS, qos |-> 1]>>
                     \o (IF monitor_alive
                           THEN <<[topic |-> MQTT_TOPIC_ALIVE, qos |-> 1]>>
                           ELSE <<>>),
            printed |-> "connected, monitor ready",
            send |-> <<>>]
      ELSE [subs |-> <<>>, printed |-> "connection failed", send |-> <<>>]

on_disconnect(rc) ==
    [printed |-> IF rc # 0 THEN "unexpected disconnection" ELSE "disconnected",
     send |-> <<>>]

\* loop_forever calls on_connect: after the first connection and after
\* every reconnection.
OnConnect(rc) ==
    /\ loop_forever_idle
    /\ nevents < MaxEvents
    /\ LET o == on_connect(rc, MONITOR_ALIVE)
       IN  /\ event' = [callback |-> "on_connect", rc |-> rc, printed |-> o.printed]
           /\ subs' = o.subs
           /\ cbcalls' = cbcalls + Len(o.send)
    /\ nevents' = nevents + 1
    /\ UNCHANGED <<pc, config, msg, branch, log, calls, posts, ret, escaped,
                   sdcalls, sdposts, sdret, nmsgs, sigs, startup, history, rendered, request>>

\* loop_forever calls on_disconnect when the connection is lost or closed.
OnDisconnect(rc) ==
    /\ loop_forever_idle
    /\ nevents < MaxEvents
    /\ LET o == on_disconnect(rc)
       IN  /\ event' = [callback |-> "on_disconnect", rc |-> rc, printed |-> o.printed]
           /\ cbcalls' = cbcalls + Len(o.send)
    /\ nevents' = nevents + 1
    /\ UNCHANGED <<pc, config, msg, branch, log, calls, posts, ret, escaped, subs,
                   sdcalls, sdposts, sdret, nmsgs, sigs, startup, history, rendered, request>>

(***************************************************************************)
(* The receive loop with its connection callbacks, over a few messages:    *)
(* one that sends, one that does not, and one that cannot be parsed.       *)
(***************************************************************************)
LifecyclePayloads ==
    { [utf8 |-> TRUE, text |-> [json |-> "invalid", obj |-> NoObject]],
      [utf8 |-> TRUE, text |-> [json |-> "object",
                                obj |-> [device_id |-> <<"sensor", "1">>, status |-> S_offline]]],
      [utf8 |-> TRUE, text |-> [json |-> "object",
                                obj |-> [device_id |-> <<"sensor", "1">>, status |-> S_nomotion]]] }

NextLifecycle ==
    \/ Main
    \/ \E rc \in ReasonCodes : OnConnect(rc)
    \/ \E rc \in ReasonCodes : OnDisconnect(rc)
    \/ \E topic \in Topics, bytes \in LifecyclePayloads, now \in Nows : Receive(topic, bytes, now)
    \/ \E r \in {"ok", "fail"} : MessagePostEnds(r)

SpecLifecycle == Init /\ [][NextLifecycle]_vars

(***************************************************************************)
(* The receive loop with the history of what it received, which delivery   *)
(* calls it started and which notifications were delivered, over a few     *)
(* messages.                                                               *)
(***************************************************************************)
ReceiveTraced(topic, bytes, now) ==
    /\ on_message_runs(topic, bytes, now)
    /\ inbound' = Append(inbound, [topic |-> topic, payload |-> bytes])
    /\ started' = IF calls' = 1
                    THEN Append(started, [n |-> nmsgs', text |-> posts'[1].payload.text])
                    ELSE started
    /\ UNCHANGED <<delivered, rendered, request>>

MessagePostEndsTraced(r) ==
    /\ post_ends(r)
    /\ delivered' = IF r = "ok"
                      THEN Append(delivered, [n |-> nmsgs, text |-> posts[Len(posts)].payload.text])
                      ELSE delivered
    /\ UNCHANGED <<inbound, started>>

TracePayloads ==
    { [utf8 |-> TRUE, text |-> [json |-> "invalid", obj |-> NoObject]],
      [utf8 |-> TRUE, text |-> [json |-> "object",
                                obj |-> [device_id |-> <<"sensor", "1">>, status |-> S_offline,
                                         reason |-> <<"power", " ", "loss">>]]],
      [utf8 |-> TRUE, text |-> [json |-> "object", obj |-> [status |-> S_offline]]],
      [utf8 |-> TRUE, text |-> [json |-> "object",
                                obj |-> [device_id |-> <<"sensor", "1">>, status |-> S_online]]],
      [utf8 |-> TRUE, text |-> [json |-> "object",
                                obj |-> [device_id |-> <<"sensor", "1">>, status |-> S_nomotion]]] }

NextTrace ==
    \/ Main
    \/ \E topic \in Topics, bytes \in TracePayloads, now \in Nows :
          ReceiveTraced(topic, bytes, now)
    \/ \E r \in {"ok", "fail"} : MessagePostEndsTraced(r)

SpecTrace == Init /\ [][NextTrace]_vars

(***************************************************************************)
(* format_alive_message.  str() of a non-negative int is its decimal       *)
(* digits, one token a digit; the f-string puts the three numbers between  *)
(* the letters.                                                            *)
(***************************************************************************)
MaxUptime == 3725

LongUptimes == {7325, 36000, 86399, 90061, 360000}

Uptimes == 0..MaxUptime \cup LongUptimes

DecimalDigits == <<"0", "1", "2", "3", "4", "5", "6", "7", "8", "9">>

RECURSIVE str(_)
str(n) ==
    IF n < 10 THEN <<DecimalDigits[n + 1]>>
    ELSE str(n \div 10) \o <<DecimalDigits[(n % 10) + 1]>>

\* format_alive_message with the minutes taken from the whole uptime.
format_alive_message_minutes(device_id, rtc_time, uptime_sec) ==
    LET hours == uptime_sec \div 3600
        minutes == uptime_sec \div 60
        seconds == uptime_sec % 60
        uptime_str == str(hours) \o <<"h", " ">> \o str(minutes) \o <<"m", " ">>
                        \o str(seconds) \o <<"s">>
    IN  <<"<b>Device Heartbeat</b>\n\n", "<b>Device:</b> <code>">> \o device_id
          \o <<"</code>\n", "<b>RTC Time:</b> ">> \o rtc_time
          \o <<"\n", "<b>Uptime:</b> ">> \o uptime_str \o <<"\n">>

format_alive_message(device_id, rtc_time, uptime_sec) ==
    LET hours == uptime_sec \div 3600
        minutes == (uptime_sec % 3600) \div 60
        seconds == uptime_sec % 60
        uptime_str == str(hours) \o <<"h", " ">> \o str(minutes) \o <<"m", " ">>
                        \o str(seconds) \o <<"s">>
    IN  <<"<b>Device Heartbeat</b>\n\n", "<b>Device:</b> <code>">> \o device_id
          \o <<"</code>\n", "<b>RTC Time:</b> ">> \o rtc_time
          \o <<"\n", "<b>Uptime:</b> ">> \o uptime_str \o <<"\n">>

(***************************************************************************)
(* The program with the configuration of the source (lines 60-61, both     *)
(* flags True), heartbeats arriving, and format_alive_message called with  *)
(* arguments drawn at the start.                                           *)
(***************************************************************************)
InitAlive ==
    /\ pc = "start"
    /\ TELEGRAM_BOT_TOKEN = "123456:token"
    /\ TELEGRAM_CHAT_ID = "4242"
    /\ MONITOR_ALIVE = TRUE
    /\ NOTIFY_ONLINE = TRUE
    /\ msg = NoMessage
    /\ branch = "none"
    /\ log = <<>>
    /\ calls = 0
    /\ posts = <<>>
    /\ ret = "none"
    /\ escaped = "none"
    /\ sdcalls = 0
    /\ sdposts = <<>>
    /\ sdret = "none"
    /\ nmsgs = 0
    /\ sigs = 0
    /\ client = FALSE
    /\ connects = 0
    /\ event = [callback |-> "none", rc |-> 0, printed |-> "none"]
    /\ subs = <<>>
    /\ cbcalls = 0
    /\ nevents = 0
    /\ inbound = <<>>
    /\ started = <<>>
    /\ delivered = <<>>
    /\ rendered \in { [device_id |-> <<"sensor", "1">>, rtc_time |-> <<"2026-01-01", " ", "11:59:58">>,
                       uptime_sec |-> u, called |-> FALSE, text |-> <<>>] : u \in Uptimes }
    /\ request = <<>>

FormatAlive ==
    /\ ~rendered.called
    /\ rendered' = [rendered EXCEPT
                      !.called = TRUE,
                      !.text = format_alive_message(rendered.device_id, rendered.rtc_time,
                                                    rendered.uptime_sec)]
    /\ UNCHANGED <<pc, config, msg, branch, log, calls, posts, ret, escaped,
                   sdcalls, sdposts, sdret, nmsgs, sigs, startup, lifecycle, history,
                   request>>

AlivePayloads ==
    { [utf8 |-> TRUE,
       text |-> [json |-> "object",
                 obj |-> [device_id |-> <<"sensor", "1">>,
                          rtc_time |-> <<"2026-01-01", " ", "11:59:58">>,
                          uptime_sec |-> str(u)]]] : u \in {5, 3725} }
      \cup { [utf8 |-> TRUE, text |-> [json |-> "object", obj |-> NoObject]] }

NextAlive ==
    \/ Main
    \/ FormatAlive
    \/ \E bytes \in AlivePayloads, now \in Nows : Receive(MQTT_TOPIC_ALIVE, bytes, now)

SpecAlive == InitAlive /\ [][NextAlive]_vars

(***************************************************************************)
(* send_telegram_message called on its own, with a text and a parse_mode:  *)
(* None, the empty string, or "HTML".                                      *)
(***************************************************************************)
ParseModes == {None, "", "HTML"}

SendTexts == { <<"plain text">>, <<"<b>bold</b>", " ", "text">> }

SendCalled(message, parse_mode) ==
    /\ pc = "start"
    /\ request = <<>>
    /\ request' = [message |-> message, parse_mode |-> parse_mode]
    /\ posts' = FirstPost(TELEGRAM_CHAT_ID, message, parse_mode)
    /\ ret' = "none"
    /\ pc' = "send_post1"
    /\ UNCHANGED <<config, msg, branch, log, calls, escaped, sdcalls, sdposts, sdret,
                   nmsgs, sigs, startup, lifecycle, history, rendered>>

SendPostEnds(r) ==
    /\ pc \in {"send_post1", "send_post2"}
    /\ LET s == send_telegram_message(posts, r)
       IN  /\ posts' = s.posts
           /\ ret' = s.ret
           /\ pc' = IF s.ret = "none" THEN "send_post2" ELSE "send_returned"
    /\ UNCHANGED <<config, msg, branch, log, calls, escaped, sdcalls, sdposts, sdret,
                   nmsgs, sigs, startup, lifecycle, history, rendered, request>>

NextSend ==
    \/ \E message \in SendTexts, parse_mode \in ParseModes : SendCalled(message, parse_mode)
    \/ \E r \in {"ok", "fail"} : SendPostEnds(r)

SpecSend == Init /\ [][NextSend]_vars

TypeOK ==
    /\ pc \in {"start", "returned", "loop", "msg_post1", "msg_post2",
               "sd_post1", "sd_post2", "done", "crashed"}
    /\ calls \in 0..1
    /\ Len(posts) \in 0..2
    /\ ret \in {"none", "True", "False"}
    /\ nmsgs \in 0..MaxMsgs
    /\ sigs \in 0..MaxSignals

(***************************************************************************)
(* Vocabulary of the properties: the last inbound message as the           *)
(* properties see it, read from the message itself.                        *)
(***************************************************************************)
Seen == nmsgs > 0
NotUtf8 == Seen /\ ~msg.payload.utf8
NotJson == Seen /\ msg.payload.utf8 /\ msg.payload.text.json = "invalid"
IsObject == Seen /\ msg.payload.utf8 /\ msg.payload.text.json = "object"
Obj == msg.payload.text.obj
OnStatusTopic == IsObject /\ msg.topic = MQTT_TOPIC_STATUS
StatusIs(s) == OnStatusTopic /\ "status" \in DOMAIN Obj /\ Obj["status"] = s
StatusOutsideKnownSet ==
    OnStatusTopic /\ ("status" \in DOMAIN Obj => Obj["status"] \notin KnownStatuses)
Returned == pc = "loop" /\ escaped = "none"

Contains(text, part) ==
    \E i \in 1..(Len(text) - Len(part) + 1) : SubSeq(text, i, i + Len(part) - 1) = part

(***************************************************************************)
(* C1: on_message raises nothing into the receive loop, whatever the       *)
(* topic, the payload bytes and the delivery outcomes: as long as no       *)
(* shutdown signal has arrived, no exception has left on_message and the   *)
(* receive loop is still running.                                          *)
(***************************************************************************)
C1_OnMessageNeverRaises ==
    (pc # "start" /\ pc # "returned" /\ sigs = 0) =>
        /\ escaped = "none"
        /\ pc \in {"loop", "msg_post1", "msg_post2"}

(***************************************************************************)
(* C2: when the first, formatted post of a call has failed there is        *)
(* exactly one retry, its body has chat_id and text only and they are      *)
(* those of the first post; when the retry has failed too the call has     *)
(* returned False and no exception has left it.                            *)
(***************************************************************************)
FirstFormattedFailed(ps) ==
    Len(ps) >= 1 /\ Formatted(ps[1].payload) /\ ps[1].result = "fail"

OneRetryWithoutFormatting(ps) ==
    /\ Len(ps) = 2
    /\ DOMAIN ps[2].payload = {"chat_id", "text"}
    /\ ps[2].payload.chat_id = ps[1].payload.chat_id
    /\ ps[2].payload.text = ps[1].payload.text

C2_OneRetryWithoutFormatting ==
    /\ FirstFormattedFailed(posts) =>
          /\ OneRetryWithoutFormatting(posts)
          /\ posts[2].result = "fail" => (ret = "False" /\ escaped = "none")
    /\ FirstFormattedFailed(sdposts) =>
          /\ OneRetryWithoutFormatting(sdposts)
          /\ sdposts[2].result = "fail" => (sdret = "False" /\ pc = "done")

C2_Witness ==
    /\ FirstFormattedFailed(posts)
    /\ posts[2].result = "fail"
    /\ ret = "False"
    /\ pc = "loop"

(***************************************************************************)
(* C3: a message makes at most one call of send_telegram_message and the   *)
(* call at most two posts; the first post is the formatted one, a second   *)
(* post is plain and follows a failed first one, nothing follows a         *)
(* successful post, and the call returns True exactly when one of its      *)
(* posts succeeded.                                                        *)
(***************************************************************************)
C3_AtMostTwoPosts ==
    /\ calls \in {0, 1}
    /\ calls = 0 => posts = <<>>
    /\ calls = 1 => (Len(posts) \in {1, 2} /\ Formatted(posts[1].payload))
    /\ Len(posts) = 2 => (posts[1].result = "fail" /\ ~Formatted(posts[2].payload))
    /\ \A i \in 1..Len(posts) : posts[i].result = "ok" => i = Len(posts)
    /\ ret # "none" => (ret = "True" <=> \E i \in 1..Len(posts) : posts[i].result = "ok")
    /\ (calls = 1 /\ Returned) => ret # "none"

C3_Witness ==
    /\ calls = 1
    /\ Len(posts) = 2
    /\ posts[2].result = "ok"
    /\ ret = "True"

(***************************************************************************)
(* C4: a message with status "No motion", with a status outside the known  *)
(* set or without status, a message on the alive topic, and a message      *)
(* whose payload cannot be parsed, never calls send_telegram_message.      *)
(***************************************************************************)
IsMotionCleared == StatusIs(S_nomotion)
IsUnknownStatus == StatusOutsideKnownSet
IsHeartbeat == IsObject /\ msg.topic = MQTT_TOPIC_ALIVE
IsMalformed == NotUtf8 \/ NotJson

C4_NoDeliveryForSilentVariants ==
    (IsMotionCleared \/ IsUnknownStatus \/ IsHeartbeat \/ IsMalformed) =>
        (calls = 0 /\ posts = <<>>)

C4_Witness ==
    /\ IsUnknownStatus
    /\ "status" \in DOMAIN Obj
    /\ Obj["status"] = <<"Off", "line">>
    /\ branch = "UnknownStatus"
    /\ pc = "loop"

(***************************************************************************)
(* C5: on the status topic the branch is selected by exact equality of the *)
(* status field with one of the five literals; offline, online, confirmed  *)
(* motion and initial motion each make one delivery call; every other      *)
(* value, and an absent status, goes to the catch-all, which prints the    *)
(* status string and the payload as received.                              *)
(***************************************************************************)
StatusOrDefault == IF "status" \in DOMAIN Obj THEN Obj["status"] ELSE <<"Unknown">>

VariantOf(status) ==
    CASE status = S_offline   -> "DeviceOffline"
      [] status = S_online    -> "DeviceOnline"
      [] status = S_confirmed -> "MotionConfirmed"
      [] status = S_detected  -> "MotionDetectedInitial"
      [] status = S_nomotion  -> "MotionCleared"
      [] OTHER                -> "UnknownStatus"

CatchAllReported(status, payload) ==
    /\ \E i \in 1..Len(log) : log[i].line = "unknown status" /\ log[i].status = status
    /\ \E i \in 1..Len(log) : log[i].line = "full payload" /\ log[i].payload = payload

C5_ExactStatusDispatch ==
    OnStatusTopic =>
        LET v == VariantOf(StatusOrDefault)
        IN  /\ branch = v
            /\ v \in {"DeviceOffline", "DeviceOnline", "MotionConfirmed",
                      "MotionDetectedInitial"} => calls = 1
            /\ v = "UnknownStatus" => CatchAllReported(StatusOrDefault, msg.payload.text)

(***************************************************************************)
(* C6: a status-topic message with status "online" is handled as           *)
(* DeviceOnline whether the online-notification flag is on or off, never   *)
(* by the catch-all, and it makes a delivery call exactly when the flag    *)
(* is on.                                                                  *)
(***************************************************************************)
C6_OnlineClassifiedRegardlessOfFlag ==
    StatusIs(S_online) =>
        /\ branch = "DeviceOnline"
        /\ calls = 1 <=> NOTIFY_ONLINE

(***************************************************************************)
(* C7: the time of the outgoing message.                                   *)
(***************************************************************************)
TimeInMessage(t) ==
    /\ Len(posts) >= 1
    /\ Contains(posts[1].payload.text, <<"<b>Time:</b> ">> \o t \o <<"\n\n">>)

PayloadTimeOrNow == IF "timestamp" \in DOMAIN Obj THEN Obj["timestamp"] ELSE msg.now

\* C7 as claimed: every message that is sent carries the payload's
\* timestamp when the payload has one, and the processing time otherwise.
C7_PayloadTimestampUsed ==
    (OnStatusTopic /\ calls = 1) => TimeInMessage(PayloadTimeOrNow)

\* C7 as amended: the two motion messages carry the payload's timestamp when
\* the payload has one and the processing time otherwise; the offline and
\* the online message always carry the processing time.
C7_TimestampSource ==
    (OnStatusTopic /\ calls = 1) =>
        IF StatusIs(S_confirmed) \/ StatusIs(S_detected)
          THEN TimeInMessage(PayloadTimeOrNow)
          ELSE TimeInMessage(msg.now)

C7_Witness ==
    /\ StatusIs(S_confirmed)
    /\ "timestamp" \in DOMAIN Obj
    /\ Obj["timestamp"] # msg.now
    /\ calls = 1
    /\ posts[1].result = "ok"

(***************************************************************************)
(* C8: a payload that cannot be parsed is handled as MalformedPayload on   *)
(* every topic: the parse failure is printed, the message is dropped       *)
(* without a delivery call, and the loop goes on.                          *)
(***************************************************************************)
C8_MalformedOnEveryTopic ==
    IsMalformed =>
        /\ branch = "MalformedPayload"
        /\ \E i \in 1..Len(log) : log[i].line = "failed to parse JSON"
        /\ calls = 0
        /\ escaped = "none"
        /\ sigs = 0 => pc = "loop"

(***************************************************************************)
(* C9: for a status-topic message with status "offline" every post, the    *)
(* retry included, carries the payload's device_id and reason in full      *)
(* between their labels, "Unknown" and "unknown" standing in for an        *)
(* absent field.                                                           *)
(***************************************************************************)
DeviceIdOrDefault == IF "device_id" \in DOMAIN Obj THEN Obj["device_id"] ELSE <<"Unknown">>
ReasonOrDefault == IF "reason" \in DOMAIN Obj THEN Obj["reason"] ELSE <<"unknown">>

C9_OfflineTextVerbatim ==
    StatusIs(S_offline) =>
        /\ calls = 1
        /\ \A i \in 1..Len(posts) :
              /\ Contains(posts[i].payload.text,
                          <<"<b>Device:</b> <code>">> \o DeviceIdOrDefault \o <<"</code>\n">>)
              /\ Contains(posts[i].payload.text,
                          <<"<b>Reason:</b> ">> \o ReasonOrDefault \o <<"\n">>)

C9_Witness ==
    /\ StatusIs(S_offline)
    /\ "device_id" \in DOMAIN Obj
    /\ "reason" \in DOMAIN Obj
    /\ Len(posts) = 2
    /\ posts[2].result = "ok"

(***************************************************************************)
(* C10: once a KeyboardInterrupt has arrived the receive loop has stopped: *)
(* main() is in its shutdown path or beyond, not in loop_forever and not   *)
(* in on_message.                                                          *)
(***************************************************************************)
C10_SignalStopsLoop ==
    sigs > 0 => pc \notin {"loop", "msg_post1", "msg_post2"}

(***************************************************************************)
(* C11: the shutdown path makes exactly one call of send_telegram_message  *)
(* with at most two posts, a notification that failed on both attempts     *)
(* raises nothing, and client.disconnect() is eventually called whether    *)
(* the notification was delivered or not (a further KeyboardInterrupt      *)
(* inside the first post of the notification is not one of these cases).   *)
(***************************************************************************)
ShutdownEntered == sdcalls > 0
BothShutdownPostsFailed ==
    Len(sdposts) = 2 /\ sdposts[1].result = "fail" /\ sdposts[2].result = "fail"

FirstShutdownPostInterrupted ==
    Len(sdposts) >= 1 /\ sdposts[1].result = "interrupted"

C11_OneNotification ==
    /\ sdcalls \in {0, 1}
    /\ pc \in {"sd_post1", "sd_post2", "done"} => ShutdownEntered
    /\ ShutdownEntered => Len(sdposts) \in {1, 2}
    /\ ~ShutdownEntered => sdposts = <<>>
    /\ BothShutdownPostsFailed => (pc = "done" /\ sdret = "False")
    /\ pc = "done" => sdret \in {"True", "False"}

C11_ShutdownNotifiesOnceAndDisconnects ==
    /\ []C11_OneNotification
    /\ ShutdownEntered ~> (pc = "done" \/ FirstShutdownPostInterrupted)

C11_Witness ==
    /\ BothShutdownPostsFailed
    /\ pc = "done"

(***************************************************************************)
(* C12: main() creates no client and calls no connect when the bot token   *)
(* or the chat id is unset in the environment or is its placeholder.       *)
(***************************************************************************)
CredentialMissing ==
    \/ TELEGRAM_BOT_TOKEN \in {None, TokenPlaceholder}
    \/ TELEGRAM_CHAT_ID \in {None, ChatPlaceholder}

C12_NoConnectWithoutCredentials ==
    CredentialMissing => (~client /\ connects = 0)

(***************************************************************************)
(* C13: no connection callback calls send_telegram_message: whatever the   *)
(* sequence of connects, disconnects and reconnects, the callbacks have    *)
(* made no call, and a callback leaves the calls and the posts of the      *)
(* messages and of the shutdown path as they were.                         *)
(***************************************************************************)
C13_LifecycleNeverNotifies ==
    /\ [](cbcalls = 0)
    /\ [][nevents' # nevents =>
            UNCHANGED <<calls, posts, ret, sdcalls, sdposts, sdret>>]_vars

C13_Witness ==
    /\ nevents >= 3
    /\ event.callback = "on_connect"
    /\ event.rc = 0
    /\ Len(posts) = 2

(***************************************************************************)
(* C14: a connect callback with code 0 subscribes once to the status topic *)
(* and once to the alive topic exactly when heartbeat monitoring is on; a  *)
(* connect callback with another code subscribes to nothing; the same on   *)
(* every reconnect.                                                        *)
(***************************************************************************)
Subscribed(topic) == Cardinality({ i \in 1..Len(subs) : subs[i].topic = topic })

C14_SubscribeOnConnect ==
    event.callback = "on_connect" =>
        IF event.rc = 0
          THEN /\ Subscribed(MQTT_TOPIC_STATUS) = 1
               /\ Subscribed(MQTT_TOPIC_ALIVE) = (IF MONITOR_ALIVE THEN 1 ELSE 0)
               /\ Len(subs) = Subscribed(MQTT_TOPIC_STATUS) + Subscribed(MQTT_TOPIC_ALIVE)
          ELSE subs = <<>>

C14_Witness ==
    /\ nevents >= 2
    /\ event.callback = "on_connect"
    /\ event.rc = 0
    /\ ~MONITOR_ALIVE
    /\ Len(subs) = 1

(***************************************************************************)
(* C15: messages are processed one at a time and in order: a message is    *)
(* taken only when no post of the one before is in flight, posts are made  *)
(* for the last message received only, and the notifications delivered     *)
(* are a subsequence of the messages received, in the same order.          *)
(***************************************************************************)
NoPostInFlight == \A i \in 1..Len(posts) : posts[i].result # "pending"

InInboundOrder(h) ==
    /\ \A i \in 1..Len(h) : h[i].n \in 1..Len(inbound)
    /\ \A i, j \in 1..Len(h) : i < j => h[i].n < h[j].n

C15_DeliveredInOrder == InInboundOrder(started) /\ InInboundOrder(delivered)

C15_OneAtATimeInOrder ==
    /\ []C15_DeliveredInOrder
    /\ [][Len(inbound') > Len(inbound) => NoPostInFlight]_vars
    /\ [][posts' # posts /\ inbound' = inbound =>
            (started' = started /\ nmsgs' = nmsgs)]_vars

C15_Witness ==
    /\ Len(inbound) = 2
    /\ Len(delivered) = 2
    /\ delivered[1].n = 1
    /\ delivered[2].n = 2
    /\ Len(posts) = 2

(***************************************************************************)
(* C16: processing is stateless: whether the i-th message makes a          *)
(* delivery call, and the device id, status and reason of the text, are    *)
(* given by that message and the flags alone, whatever came before and     *)
(* however the earlier deliveries ended; so every offline message has its  *)
(* own call.                                                               *)
(***************************************************************************)
MessageObject(m) == m.payload.text.obj

ExpectsCall(m) ==
    /\ m.topic = MQTT_TOPIC_STATUS
    /\ m.payload.utf8
    /\ m.payload.text.json = "object"
    /\ "status" \in DOMAIN MessageObject(m)
    /\ \/ MessageObject(m)["status"] \in {S_offline, S_confirmed, S_detected}
       \/ MessageObject(m)["status"] = S_online /\ NOTIFY_ONLINE

ExpectedDevice(m) ==
    IF "device_id" \in DOMAIN MessageObject(m) THEN MessageObject(m)["device_id"] ELSE <<"Unknown">>

ExpectedReason(m) ==
    IF "reason" \in DOMAIN MessageObject(m) THEN MessageObject(m)["reason"] ELSE <<"unknown">>

ExpectedStatusLine(m) ==
    CASE MessageObject(m)["status"] = S_offline   -> "<b>Status:</b> Offline\n"
      [] MessageObject(m)["status"] = S_online    -> "<b>Status:</b> Online\n"
      [] MessageObject(m)["status"] = S_confirmed -> "<b>Status:</b> Motion confirmed\n"
      [] MessageObject(m)["status"] = S_detected  ->
            "<b>Status:</b> Motion detected (awaiting confirmation)\n"

CallsOf(i) == { k \in 1..Len(started) : started[k].n = i }

C16_Stateless ==
    \A i \in 1..Len(inbound) :
        LET m == inbound[i]
        IN  /\ Cardinality(CallsOf(i)) = (IF ExpectsCall(m) THEN 1 ELSE 0)
            /\ \A k \in CallsOf(i) :
                  /\ Contains(started[k].text,
                              <<"<b>Device:</b> <code>">> \o ExpectedDevice(m) \o <<"</code>\n">>)
                  /\ Contains(started[k].text, <<ExpectedStatusLine(m)>>)
                  /\ MessageObject(m)["status"] = S_offline =>
                        Contains(started[k].text,
                                 <<"<b>Reason:</b> ">> \o ExpectedReason(m) \o <<"\n">>)

C16_Witness ==
    /\ Len(inbound) = 2
    /\ inbound[1] = inbound[2]
    /\ ExpectsCall(inbound[1])
    /\ MessageObject(inbound[1])["status"] = S_offline
    /\ Len(started) = 2
    /\ delivered = <<>>
    /\ pc = "loop"
    /\ ret = "False"

(***************************************************************************)
(* C17: a decodable, parseable message on a topic that is neither          *)
(* the status topic nor the alive topic, or on the alive topic while       *)
(* MONITOR_ALIVE is off, is a no-op: no delivery call, no exception, no    *)
(* error line, and nothing but the record of the message received changes. *)
(***************************************************************************)
UnhandledTopic ==
    /\ Seen
    /\ msg.payload.utf8
    /\ msg.payload.text.json # "invalid"
    /\ \/ msg.topic \notin {MQTT_TOPIC_STATUS, MQTT_TOPIC_ALIVE}
       \/ msg.topic = MQTT_TOPIC_ALIVE /\ ~MONITOR_ALIVE

ReceivedLine == <<[line |-> "received", topic |-> msg.topic, payload |-> msg.payload.text]>>

C17_NoOp ==
    UnhandledTopic =>
        /\ branch = "NoOp"
        /\ calls = 0
        /\ posts = <<>>
        /\ ret = "none"
        /\ escaped = "none"
        /\ SubSeq(log, 1, 1) = ReceivedLine
        /\ \A i \in 1..Len(log) :
              log[i].line \notin {"failed to parse JSON", "error processing message"}

C17_UnhandledTopicIsNoOp ==
    /\ []C17_NoOp
    /\ [][nmsgs' # nmsgs /\ UnhandledTopic' =>
            /\ pc' = pc
            /\ log' = ReceivedLine'
            /\ UNCHANGED <<config, sdcalls, sdposts, sdret, sigs, startup, lifecycle>>]_vars

C17_Witness ==
    /\ UnhandledTopic
    /\ msg.topic = MQTT_TOPIC_ALIVE
    /\ IsObject
    /\ "status" \in DOMAIN Obj
    /\ Obj["status"] = S_offline
    /\ pc = "loop"
    /\ log = ReceivedLine

(***************************************************************************)
(* C18: format_alive_message writes the uptime as "<h>h <m>m <s>s", the    *)
(* three numbers in decimal, with h*3600 + m*60 + s the uptime and m and s *)
(* below 60 (3725 gives "1h 2m 5s"); on_message, with the flags of the     *)
(* source, handles a heartbeat without calling the formatter and without   *)
(* a delivery call.                                                        *)
(***************************************************************************)
DigitValue(d) == CHOOSE v \in 0..9 : DecimalDigits[v + 1] = d

IsDecimal(ds) ==
    /\ Len(ds) >= 1
    /\ \A i \in 1..Len(ds) : \E v \in 0..9 : DecimalDigits[v + 1] = ds[i]
    /\ Len(ds) > 1 => ds[1] # "0"

RECURSIVE int(_)
int(ds) ==
    IF Len(ds) = 1 THEN DigitValue(ds[1])
    ELSE 10 * int(SubSeq(ds, 1, Len(ds) - 1)) + DigitValue(ds[Len(ds)])

\* What stands between "<b>Uptime:</b> " and the end of the line.
UptimeField(text) ==
    LET k == CHOOSE i \in 1..Len(text) : text[i] = "<b>Uptime:</b> "
    IN  SubSeq(text, k + 1, Len(text) - 1)

Position(f, letter) == CHOOSE i \in 1..Len(f) : f[i] = letter

UptimeWellFormed(f, uptime_sec) ==
    /\ \A letter \in {"h", "m", "s"} : Cardinality({i \in 1..Len(f) : f[i] = letter}) = 1
    /\ LET ph == Position(f, "h")
           pm == Position(f, "m")
           ps == Position(f, "s")
           h == SubSeq(f, 1, ph - 1)
           m == SubSeq(f, ph + 2, pm - 1)
           sec == SubSeq(f, pm + 2, ps - 1)
       IN  /\ ph < pm
           /\ pm < ps
           /\ ps = Len(f)
           /\ f[ph + 1] = " "
           /\ f[pm + 1] = " "
           /\ IsDecimal(h)
           /\ IsDecimal(m)
           /\ IsDecimal(sec)
           /\ int(h) * 3600 + int(m) * 60 + int(sec) = uptime_sec
           /\ int(m) < 60
           /\ int(sec) < 60

C18_UptimeRendered ==
    (rendered # <<>> /\ rendered.called) =>
        /\ Cardinality({i \in 1..Len(rendered.text) : rendered.text[i] = "<b>Uptime:</b> "}) = 1
        /\ rendered.text[Len(rendered.text)] = "\n"
        /\ UptimeWellFormed(UptimeField(rendered.text), rendered.uptime_sec)
        /\ rendered.uptime_sec = 3725 =>
              UptimeField(rendered.text) = <<"1", "h", " ", "2", "m", " ", "5", "s">>

HeartbeatHandled == Seen /\ IsObject /\ msg.topic = MQTT_TOPIC_ALIVE /\ MONITOR_ALIVE

C18_HeartbeatOnlyLogged ==
    HeartbeatHandled =>
        /\ branch = "Heartbeat"
        /\ calls = 0
        /\ posts = <<>>
        /\ \A i \in 1..Len(log) : log[i].line \in {"received", "heartbeat"}

C18_AliveFormatter ==
    /\ []C18_UptimeRendered
    /\ []C18_HeartbeatOnlyLogged
    /\ [][nmsgs' # nmsgs => rendered' = rendered]_vars

C18_Witness ==
    /\ rendered # <<>>
    /\ rendered.called
    /\ rendered.uptime_sec = 3725
    /\ UptimeField(rendered.text) = <<"1", "h", " ", "2", "m", " ", "5", "s">>
    /\ HeartbeatHandled
    /\ "uptime_sec" \in DOMAIN Obj
    /\ Obj["uptime_sec"] = str(3725)
    /\ calls = 0

(***************************************************************************)
(* C19: a call without formatting (parse_mode None or empty) makes one     *)
(* post and no more: when that post fails the call returns False without   *)
(* a retry.  Only a call with formatting makes the second post.            *)
(***************************************************************************)
SendRequested == request # <<>>

WithoutFormatting == SendRequested /\ request.parse_mode \in {None, ""}

C19_OneAttemptWithoutFormatting ==
    /\ WithoutFormatting =>
          /\ Len(posts) = 1
          /\ posts[1].payload = [chat_id |-> TELEGRAM_CHAT_ID, text |-> request.message]
          /\ posts[1].result = "pending" <=> pc = "send_post1"
          /\ posts[1].result = "fail" => (pc = "send_returned" /\ ret = "False")
          /\ posts[1].result = "ok" => (pc = "send_returned" /\ ret = "True")
    /\ (SendRequested /\ ~WithoutFormatting /\ posts[1].result = "fail") => Len(posts) = 2

C19_Witness ==
    /\ WithoutFormatting
    /\ request.parse_mode = ""
    /\ posts[1].result = "fail"
    /\ ret = "False"
    /\ pc = "send_returned"

====
